---- MODULE Spec2Model ----
(***************************************************************************)
(* Model of src/Machine_learning/Training.py: a module-level script that   *)
(* loads a dataset, encodes it, splits and scales it, tunes LightGBM by    *)
(* grid search, evaluates three models and writes its outputs under data/. *)
(*                                                                         *)
(* A cell of a data frame is a record [kind, ord]: kind "str" is a text    *)
(* value whose lexicographic rank is ord, kind "int" is the number ord.    *)
(* A scaled cell is a record [kind |-> "z", num, den, n] standing for      *)
(* (n*x - sum) / sqrt(n*sumsq - sum^2), the value StandardScaler yields.   *)
(***************************************************************************)
EXTENDS Integers, Sequences, FiniteSets, TLC

\* ------------------------------------------------------------ bounds
NRows == 11
NCols == 2
MaxClasses == 3
MaxShift == 1
MaxSeed == 1
ScoreLevels == 5
MaxErr == 1
MaxPattern == 2

\* ------------------------------------------------- program constants
cv == 5
TestSizePct == 20

target_col == "Diagnosis"

\* ------------------------------------------------------------ helpers
RECURSIVE SumSeq(_)
SumSeq(s) == IF s = <<>> THEN 0 ELSE Head(s) + SumSeq(Tail(s))

RECURSIVE Fact(_)
Fact(n) == IF n <= 1 THEN 1 ELSE n * Fact(n - 1)

Range(s) == {s[i] : i \in 1..Len(s)}

Last(s) == s[Len(s)]

Txt(k) == [kind |-> "str", ord |-> k]
Num(k) == [kind |-> "int", ord |-> k]

\* the rows idx (1-based) of a column of values
Take(vals, idx) == [j \in 1..Len(idx) |-> vals[idx[j]]]

\* write (or overwrite) one file
WriteFile(fs, name, content) ==
    [n \in (DOMAIN fs) \cup {name} |-> IF n = name THEN content ELSE fs[n]]

NoFiles == [n \in {} |-> 0]

\* ------------------------------------------------------- input files
\* The content of cleaned_data.xlsx: NCols feature columns around a label
\* column, drawn from a bounded family.  Row i carries class (i-1) % k.
FeatureCell(dt, j, i) ==
    IF dt = "object" THEN Txt(((i * j) % 3) + j) ELSE Num(((i * j) % 3) + j)

FeatureNames == <<"Age", "Sex", "CRP", "WBC_Count", "Body_Temperature">>

FeatureColumn(dt, j) ==
    [name |-> FeatureNames[j], dtype |-> dt, vals |-> [i \in 1..NRows |-> FeatureCell(dt, j, i)]]

LabelColumn(nm, dt, k) ==
    [name |-> nm, dtype |-> dt,
     vals |-> [i \in 1..NRows |->
                 IF dt = "object" THEN Txt(((i - 1) % k) + 1)
                                  ELSE Num(((i - 1) % k) + 1)]]

Dtypes == {"object", "int64"}

\* the dtype of feature column j under dtype pattern p: bit j-1 of p is 0
\* for a text column and 1 for a numeric one
PatternDtype(p, j) ==
    IF (p \div (2 ^ (j - 1))) % 2 = 0 THEN "object" ELSE "int64"

Workbooks ==
    { <<FeatureColumn(PatternDtype(p, 1), 1)>> \o <<LabelColumn(target_col, ydt, k)>>
        \o [j \in 1..(NCols - 1) |-> FeatureColumn(PatternDtype(p, j + 1), j + 1)] :
        p \in 0..MaxPattern, ydt \in Dtypes, k \in 2..MaxClasses }
    \cup
    { <<FeatureColumn("int64", 1)>> \o <<LabelColumn("Label", "object", 2)>>
        \o [j \in 1..(NCols - 1) |-> FeatureColumn("object", j + 1)] }

NoData == <<>>

VARIABLES
    pc,                 \* the statement the script is at
    error,              \* the unhandled exception that ended the run, or "none"
    stages,             \* history: the pipeline stages entered, in order
    dirs,               \* directories created
    fileExists,         \* os.path.exists(file_path)
    workbook,           \* content of the Excel file (NoData when absent)
    dataset,            \* pd.read_excel(file_path)
    X, y,               \* features (sequence of columns) and target column
    trainIdx, testIdx,  \* row labels of the two splits
    X_train, X_test, y_train, y_test,
    X_train_original, X_test_original,
    scaler,             \* StandardScaler: per-column statistics, fit log
    cv_results,         \* GridSearchCV.cv_results_: candidate -> fold scores
    best_params,        \* GridSearchCV.best_params_
    models,             \* the dict of line 96, as a sequence of names
    est,                \* name -> estimator object (parameters, fits)
    fitLog,             \* history: every fit call with the data it received
    idx,                \* position of the evaluation loop in models
    y_pred,             \* predictions of the model being evaluated
    results,            \* name -> metrics
    reported,           \* names whose exception was printed by the handler
    predicted,          \* history: names whose fit and predict both returned
    files               \* file name -> content, under data/

vars == <<pc, error, stages, dirs, fileExists, workbook, dataset, X, y,
          trainIdx, testIdx, X_train, X_test, y_train, y_test,
          X_train_original, X_test_original, scaler, cv_results, best_params,
          models, est, fitLog, idx, y_pred, results, reported, predicted, files>>

dataVars == <<X, y>>
splitVars == <<trainIdx, testIdx, X_train, X_test, y_train, y_test>>
origVars == <<X_train_original, X_test_original>>
tuneVars == <<cv_results, best_params>>
loopVars == <<idx, y_pred, results, reported, predicted>>
envVars == <<fileExists, workbook>>

Enter(s) == IF stages # <<>> /\ Last(stages) = s THEN stages ELSE Append(stages, s)

Init ==
    /\ pc = "makedirs"
    /\ error = "none"
    /\ stages = <<>>
    /\ dirs = {}
    /\ fileExists \in BOOLEAN
    /\ workbook \in (IF fileExists THEN Workbooks ELSE {NoData})
    /\ dataset = NoData
    /\ X = <<>> /\ y = <<>>
    /\ trainIdx = <<>> /\ testIdx = <<>>
    /\ X_train = <<>> /\ X_test = <<>> /\ y_train = <<>> /\ y_test = <<>>
    /\ X_train_original = <<>> /\ X_test_original = <<>>
    /\ scaler = <<>>
    /\ cv_results = [params |-> <<>>, scores |-> <<>>]
    /\ best_params = <<>>
    /\ models = <<>>
    /\ est = [n \in {} |-> 0]
    /\ fitLog = <<>>
    /\ idx = 0
    /\ y_pred = <<>>
    /\ results = [n \in {} |-> 0]
    /\ reported = {}
    /\ predicted = {}
    /\ files = NoFiles

\* ------------------------------------------------ lines 12-33: checks
MakeDirs ==
    /\ pc = "makedirs"
    /\ dirs' = dirs \cup {"data"}
    /\ pc' = "check_file"
    /\ UNCHANGED <<error, stages, envVars, dataset, dataVars, splitVars, origVars,
                   scaler, tuneVars, models, est, fitLog, loopVars, files>>

Raise(exc) ==
    /\ error' = exc
    /\ pc' = "aborted"

\* a check that never fires
FileCheckSkipped == FALSE

\* line 20
FileMissing == ~fileExists

CheckFile ==
    /\ pc = "check_file"
    /\ IF FileMissing
         THEN Raise("FileNotFoundError")
         ELSE pc' = "load" /\ error' = error
    /\ UNCHANGED <<stages, dirs, envVars, dataset, dataVars, splitVars, origVars,
                   scaler, tuneVars, models, est, fitLog, loopVars, files>>

Load ==
    /\ pc = "load"
    /\ dataset' = workbook
    /\ stages' = Enter("load")
    /\ pc' = "check_target"
    /\ UNCHANGED <<error, dirs, envVars, dataVars, splitVars, origVars,
                   scaler, tuneVars, models, est, fitLog, loopVars, files>>

Columns(df) == [j \in 1..Len(df) |-> df[j].name]

TargetMissing == target_col \notin Range(Columns(dataset))

CheckTarget ==
    /\ pc = "check_target"
    /\ IF TargetMissing
         THEN Raise("ValueError")
         ELSE pc' = "define_xy" /\ error' = error
    /\ UNCHANGED <<stages, dirs, envVars, dataset, dataVars, splitVars, origVars,
                   scaler, tuneVars, models, est, fitLog, loopVars, files>>

\* ------------------------------------------- lines 35-47: X, y, encode
Drop(df, nm) == SelectSeq(df, LAMBDA c : c.name # nm)

Column(df, nm) == df[CHOOSE j \in 1..Len(df) : df[j].name = nm]

DefineXY ==
    /\ pc = "define_xy"
    /\ X' = Drop(dataset, target_col)
    /\ y' = Column(dataset, target_col)
    /\ pc' = "encode_y"
    /\ UNCHANGED <<error, stages, dirs, envVars, dataset, splitVars, origVars,
                   scaler, tuneVars, models, est, fitLog, loopVars, files>>

\* LabelEncoder().fit_transform: each value becomes its rank among the
\* sorted distinct values of the values it was fitted on
LabelEncode(vals, fitted) ==
    [i \in 1..Len(vals) |->
        Num(Cardinality({u \in Range(fitted) : u.ord < vals[i].ord}))]

NUnique(vals) == Cardinality(Range(vals))

NeedsTargetEncoding(col) == col.dtype = "object" \/ NUnique(col.vals) > 2

EncodeTarget ==
    /\ pc = "encode_y"
    /\ y' = IF NeedsTargetEncoding(y)
              THEN [name |-> "0", dtype |-> "int64",
                    vals |-> LabelEncode(y.vals, y.vals)]
              ELSE y
    /\ stages' = Enter("encode")
    /\ pc' = "encode_X"
    /\ UNCHANGED <<error, dirs, envVars, dataset, X, splitVars, origVars,
                   scaler, tuneVars, models, est, fitLog, loopVars, files>>

categorical_cols(df) == {j \in 1..Len(df) : df[j].dtype = "object"}

\* one encoder fitted on the values of all the categorical columns together
EncodeColumnShared(df, j) ==
    [name |-> df[j].name, dtype |-> "int64",
     vals |-> LabelEncode(df[j].vals,
                          [i \in 1..Len(df[j].vals) * Len(df) |->
                              LET c == ((i - 1) % Len(df)) + 1
                                  r == ((i - 1) \div Len(df)) + 1
                              IN IF c \in categorical_cols(df) THEN df[c].vals[r]
                                                               ELSE df[j].vals[r]])]

\* lines 45-47: each column has its own encoder
EncodeColumn(df, j) ==
    [name |-> df[j].name, dtype |-> "int64",
     vals |-> LabelEncode(df[j].vals, df[j].vals)]

EncodeFeatures ==
    /\ pc = "encode_X"
    /\ X' = [j \in 1..Len(X) |->
               IF j \in categorical_cols(X) THEN EncodeColumn(X, j) ELSE X[j]]
    /\ stages' = Enter("encode")
    /\ pc' = "split"
    /\ UNCHANGED <<error, dirs, envVars, dataset, y, splitVars, origVars,
                   scaler, tuneVars, models, est, fitLog, loopVars, files>>

\* ------------------------------------------------ lines 49-53: split
\* train_test_split(test_size=0.2): n_test = ceil(0.2 * n), the rest trains
NTest(n) == (n * TestSizePct + 99) \div 100

\* the test rows of one shuffle: NTest consecutive rows from row shift+1 on
\* (with classes laid out periodically this is a stratified sample)
TestRows(n, shift) == [j \in 1..NTest(n) |-> shift + j]

TrainRows(n, shift) ==
    SelectSeq([i \in 1..n |-> i], LAMBDA i : i \notin Range(TestRows(n, shift)))

Rows(df, rows) ==
    [j \in 1..Len(df) |->
        [name |-> df[j].name, dtype |-> df[j].dtype, vals |-> Take(df[j].vals, rows)]]

Split ==
    /\ pc = "split"
    /\ stages' = Enter("split")
    /\ \E shift \in 0..MaxShift, ok \in BOOLEAN :
         IF ok /\ NTest(NRows) >= NUnique(y.vals)
           THEN /\ testIdx' = TestRows(NRows, shift)
                /\ trainIdx' = TrainRows(NRows, shift)
                /\ X_train' = Rows(X, trainIdx')
                /\ X_test' = Rows(X, testIdx')
                /\ y_train' = Take(y.vals, trainIdx')
                /\ y_test' = Take(y.vals, testIdx')
                /\ pc' = "copy"
                /\ error' = error
           ELSE /\ Raise("ValueError")
                /\ UNCHANGED splitVars
    /\ UNCHANGED <<dirs, envVars, dataset, dataVars, origVars,
                   scaler, tuneVars, models, est, fitLog, loopVars, files>>

\* ------------------------------------ lines 55-65: copies, scaler, csv
CopyOriginals ==
    /\ pc = "copy"
    /\ X_train_original' = X_train
    /\ X_test_original' = X_test
    /\ pc' = "scale"
    /\ UNCHANGED <<error, stages, dirs, envVars, dataset, dataVars, splitVars,
                   scaler, tuneVars, models, est, fitLog, loopVars, files>>

Ords(vals) == [i \in 1..Len(vals) |-> vals[i].ord]
Squares(vals) == [i \in 1..Len(vals) |-> vals[i].ord * vals[i].ord]

\* StandardScaler.fit: the statistics of each column of the frame given
ScalerFit(df) ==
    [j \in 1..Len(df) |->
        [n |-> Len(df[j].vals), sum |-> SumSeq(Ords(df[j].vals)),
         sumsq |-> SumSeq(Squares(df[j].vals))]]

Zcell(x, st) ==
    [kind |-> "z", num |-> st.n * x.ord - st.sum,
     den |-> st.n * st.sumsq - st.sum * st.sum, n |-> st.n]

\* StandardScaler.transform: a plain array (one sequence per column)
ScalerTransform(sc, df) ==
    [j \in 1..Len(df) |->
        [i \in 1..Len(df[j].vals) |-> Zcell(df[j].vals[i], sc[j])]]

\* the scaler fitted on all the rows
ScalerFitAll == X

\* the frame the scaler is fitted on (line 61)
ScalerFitData == X_train

FitCall(who, Xd, yd) == [est |-> who, X |-> Xd, y |-> yd]

Scale ==
    /\ pc = "scale"
    /\ stages' = Enter("scale")
    /\ scaler' = ScalerFit(ScalerFitData)
    /\ fitLog' = Append(fitLog, FitCall("StandardScaler", ScalerFitData, <<>>))
    /\ X_train' = ScalerTransform(scaler', X_train)
    /\ X_test' = ScalerTransform(scaler', X_test)
    /\ pc' = "write_originals"
    /\ UNCHANGED <<error, dirs, envVars, dataset, dataVars, trainIdx, testIdx,
                   y_train, y_test, origVars, tuneVars, models, est, loopVars, files>>

\* pd.DataFrame(array, columns=X.columns)
Frame(arr, cols) ==
    [j \in 1..Len(arr) |-> [name |-> cols[j], dtype |-> "float64", vals |-> arr[j]]]

\* DataFrame.to_csv(index=False): the header, then the rows
Csv(df) ==
    [header |-> Columns(df),
     rows |-> IF df = <<>> THEN <<>>
              ELSE [i \in 1..Len(df[1].vals) |-> [j \in 1..Len(df) |-> df[j].vals[i]]]]

\* the scaled arrays written under the names of the originals
WriteScaledAsOriginals(fs) ==
    WriteFile(WriteFile(fs, "data/X_train_original.csv", Csv(Frame(X_train, Columns(X)))),
              "data/X_test_original.csv", Csv(Frame(X_test, Columns(X))))

\* lines 64-65
WriteOriginalFiles(fs) ==
    WriteFile(WriteFile(fs, "data/X_train_original.csv", Csv(X_train_original)),
              "data/X_test_original.csv", Csv(X_test_original))

WriteOriginals ==
    /\ pc = "write_originals"
    /\ stages' = Enter("write_originals")
    /\ files' = WriteOriginalFiles(files)
    /\ pc' = "grid_search"
    /\ UNCHANGED <<error, dirs, envVars, dataset, dataVars, splitVars, origVars,
                   scaler, tuneVars, models, est, fitLog, loopVars>>

\* ------------------------------------------ lines 67-93: grid search
\* a grid that lost one value of max_depth
param_grid_short ==
    [n_estimators |-> <<100, 200, 300>>,
     learning_rate |-> <<1, 10, 30>>,
     max_depth |-> <<3, 5>>,
     num_leaves |-> <<20, 31, 40>>,
     min_child_samples |-> <<5, 10, 20>>]

\* learning_rate is kept in hundredths (0.01, 0.1, 0.3)
param_grid ==
    [n_estimators |-> <<100, 200, 300>>,
     learning_rate |-> <<1, 10, 30>>,
     max_depth |-> <<3, 5, 10>>,
     num_leaves |-> <<20, 31, 40>>,
     min_child_samples |-> <<5, 10, 20>>]

\* ParameterGrid(param_grid): every combination of one value per key
Candidates ==
    [n_estimators : Range(param_grid.n_estimators),
     learning_rate : Range(param_grid.learning_rate),
     max_depth : Range(param_grid.max_depth),
     num_leaves : Range(param_grid.num_leaves),
     min_child_samples : Range(param_grid.min_child_samples)]

\* ParameterGrid's iteration order: keys sorted by name, the last key
\* varying fastest; Digit(i, below, base) is the position along one key
Digit(i, below, base) == (((i - 1) \div below) % base) + 1

GridSize == Cardinality(Candidates)

CandAt(i) ==
    LET g == param_grid
        nl == Len(g.num_leaves)
        ne == Len(g.n_estimators)
        mc == Len(g.min_child_samples)
        md == Len(g.max_depth)
    IN [num_leaves |-> g.num_leaves[Digit(i, 1, nl)],
        n_estimators |-> g.n_estimators[Digit(i, nl, ne)],
        min_child_samples |-> g.min_child_samples[Digit(i, nl * ne, mc)],
        max_depth |-> g.max_depth[Digit(i, nl * ne * mc, md)],
        learning_rate |-> g.learning_rate[Digit(i, nl * ne * mc * md,
                                                 Len(g.learning_rate))]]

\* the candidates the search evaluates, in order
GridList == [i \in 1..GridSize |-> CandAt(i)]

\* The cross-validated scores are a function of the training data (every
\* random_state is fixed): the data picks one of a bounded family of score
\* tables by a checksum of its cells.
DataSeed(Xd, yd) ==
    (SumSeq([j \in 1..Len(Xd) |-> Xd[j][1].den + Xd[j][Len(Xd[j])].num * Xd[j][Len(Xd[j])].num])
       + SumSeq(Ords(yd))) % (MaxSeed + 1)

\* the f1_weighted score of candidate number i on fold f under table seed
FoldScore(seed, i, f) == ((i * (seed + 2)) % ScoreLevels) + ((i + f) % 2)

\* cv_results_: the candidates and, for each, its score on every fold
CvResults(grid, seed) ==
    [params |-> grid,
     scores |-> [i \in 1..Len(grid) |-> [f \in 1..cv |-> FoldScore(seed, i, f)]]]

\* mean_test_score of candidate number i, times the number of folds
MeanScore(res, i) == SumSeq(res.scores[i])

\* best_index_: rank 1 of mean_test_score, the first such candidate
BestIndex(res) ==
    LET m == [i \in 1..Len(res.params) |-> MeanScore(res, i)]
        top == CHOOSE v \in Range(m) : \A w \in Range(m) : w <= v
    IN CHOOSE i \in 1..Len(m) : m[i] = top /\ \A k \in 1..(i - 1) : m[k] # top

Estimator(kind, params, lastFit, nfit) ==
    [kind |-> kind, params |-> params, lastFit |-> lastFit, nfit |-> nfit]

\* obj.fit(X, y): the object remembers the call that trained it last
Fitted(obj, call) == Estimator(obj.kind, obj.params, call, obj.nfit + 1)

SetEst(e, name, obj) ==
    [n \in (DOMAIN e) \cup {name} |-> IF n = name THEN obj ELSE e[n]]

\* the data every model is fitted on (lines 88, 90, 108)
FitData == [X |-> X_train, y |-> y_train]

GridSearch ==
    /\ pc = "grid_search"
    /\ stages' = Enter("grid_search")
    /\ \E ok \in BOOLEAN :
         IF ok
           THEN /\ cv_results' = CvResults(GridList, DataSeed(FitData.X, FitData.y))
                /\ best_params' = cv_results'.params[BestIndex(cv_results')]
                /\ fitLog' = Append(fitLog, FitCall("GridSearchCV", FitData.X, FitData.y))
                \* refit=True: best_estimator_ is fitted on the whole of X, y
                /\ est' = SetEst(est, "best_estimator_",
                                 Estimator("LGBMClassifier", best_params', Len(fitLog'), 1))
                /\ pc' = "best_fit"
                /\ error' = error
           ELSE /\ Raise("ValueError")
                /\ UNCHANGED <<tuneVars, fitLog, est>>
    /\ UNCHANGED <<dirs, envVars, dataset, dataVars, splitVars, origVars,
                   scaler, models, loopVars, files>>

\* lines 89-90: best_model is the search's best estimator, fitted again
best_model == "best_estimator_"

\* the model fitted and written to disk at once, before the evaluation
BestFitAndDump ==
    /\ pc = "best_fit"
    /\ stages' = Enter("fit")
    /\ fitLog' = Append(fitLog, FitCall(best_model, FitData.X, FitData.y))
    /\ est' = SetEst(est, best_model, Fitted(est[best_model], Len(fitLog')))
    /\ files' = WriteFile(files, "data/best_model.pkl", est'[best_model])
    /\ pc' = "define_models"
    /\ UNCHANGED <<error, dirs, envVars, dataset, dataVars, splitVars, origVars,
                   scaler, tuneVars, models, loopVars>>

BestFit ==
    /\ pc = "best_fit"
    /\ stages' = Enter("fit")
    /\ fitLog' = Append(fitLog, FitCall(best_model, FitData.X, FitData.y))
    /\ est' = SetEst(est, best_model, Fitted(est[best_model], Len(fitLog')))
    /\ pc' = "define_models"
    /\ UNCHANGED <<error, dirs, envVars, dataset, dataVars, splitVars, origVars,
                   scaler, tuneVars, models, loopVars, files>>

\* lines 95-103: the dict of models (insertion order) and the empty results
ModelsDict ==
    << [name |-> "SVM", obj |-> "SVC"],
       [name |-> "Random Forest", obj |-> "RandomForestClassifier"],
       [name |-> "LightGBM Optimise", obj |-> best_model] >>

SVCParams == [probability |-> TRUE, kernel |-> "linear"]
ForestParams == [n_jobs |-> -1]

DefineModels ==
    /\ pc = "define_models"
    /\ models' = ModelsDict
    /\ est' = SetEst(SetEst(est, "SVC", Estimator("SVC", SVCParams, 0, 0)),
                     "RandomForestClassifier",
                     Estimator("RandomForestClassifier", ForestParams, 0, 0))
    /\ results' = [n \in {} |-> 0]
    /\ idx' = 1
    /\ pc' = "loop_fit"
    /\ UNCHANGED <<error, stages, dirs, envVars, dataset, dataVars, splitVars, origVars,
                   scaler, tuneVars, fitLog, y_pred, reported, predicted, files>>

\* --------------------------------------- lines 105-134: evaluation
Current == models[idx]

\* line 105: the next model of the dict, or the statement after the loop
Advance ==
    /\ idx' = idx + 1
    /\ pc' = IF idx < Len(models) THEN "loop_fit" ELSE "print"

\* line 108
LoopFit ==
    /\ pc = "loop_fit"
    /\ stages' = Enter("evaluate")
    /\ \E ok \in BOOLEAN :
         IF ok
           THEN /\ fitLog' = Append(fitLog, FitCall(Current.obj, FitData.X, FitData.y))
                /\ est' = SetEst(est, Current.obj, Fitted(est[Current.obj], Len(fitLog')))
                /\ pc' = "loop_predict"
           ELSE /\ pc' = "loop_except"
                /\ UNCHANGED <<fitLog, est>>
    /\ UNCHANGED <<error, dirs, envVars, dataset, dataVars, splitVars, origVars,
                   scaler, tuneVars, models, loopVars, files>>

\* a label the model knows other than v
OtherLabel(v) == CHOOSE u \in Range(y_train) : u # v

\* model.predict(X_test): the true labels with the first wrong of them wrong
Predict(wrong) ==
    [j \in 1..Len(y_test) |-> IF j <= wrong THEN OtherLabel(y_test[j]) ELSE y_test[j]]

\* line 112
LoopPredict ==
    /\ pc = "loop_predict"
    /\ \E wrong \in 0..MaxErr, ok \in BOOLEAN :
         IF ok
           THEN /\ y_pred' = Predict(wrong)
                /\ predicted' = predicted \cup {Current.name}
                /\ pc' = "loop_score"
           ELSE /\ UNCHANGED <<y_pred, predicted>>
                /\ pc' = "loop_except"
    /\ UNCHANGED <<error, stages, dirs, envVars, dataset, dataVars, splitVars, origVars,
                   scaler, tuneVars, models, est, fitLog, idx, results, reported, files>>

\* sklearn metrics, in units of 1 / (Unit(n) * n) for n test rows
Unit(n) == Fact(2 * n)

Count(s, P(_)) == Cardinality({j \in 1..Len(s) : P(j)})

RECURSIVE SumOver(_, _)
SumOver(S, f) ==
    IF S = {} THEN 0
    ELSE LET c == CHOOSE c \in S : TRUE IN f[c] + SumOver(S \ {c}, f)

Labels(yt, yp) == Range(yt) \cup Range(yp)
Support(yt, c) == Count(yt, LAMBDA j : yt[j] = c)
Predicted(yp, c) == Count(yp, LAMBDA j : yp[j] = c)
TruePos(yt, yp, c) == Count(yt, LAMBDA j : yt[j] = c /\ yp[j] = c)

Ratio(k, num, den) == IF den = 0 THEN 0 ELSE (k * num) \div den

accuracy_score(yt, yp) == Unit(Len(yt)) * Count(yt, LAMBDA j : yt[j] = yp[j])

\* average="weighted": per-class scores weighted by the class's support
precision_score(yt, yp) ==
    SumOver(Labels(yt, yp),
            [c \in Labels(yt, yp) |->
               Support(yt, c) * Ratio(Unit(Len(yt)), TruePos(yt, yp, c), Predicted(yp, c))])

recall_score(yt, yp) ==
    SumOver(Labels(yt, yp),
            [c \in Labels(yt, yp) |->
               Support(yt, c) * Ratio(Unit(Len(yt)), TruePos(yt, yp, c), Support(yt, c))])

f1_score(yt, yp) ==
    SumOver(Labels(yt, yp),
            [c \in Labels(yt, yp) |->
               Support(yt, c) * Ratio(Unit(Len(yt)), 2 * TruePos(yt, yp, c),
                                      Support(yt, c) + Predicted(yp, c))])

None == -1

\* hasattr(model, 'predict_proba'): SVC has it when probability=True
HasPredictProba(obj) ==
    \/ obj.kind \in {"RandomForestClassifier", "LGBMClassifier"}
    \/ obj.kind = "SVC" /\ obj.params.probability

\* model.classes_[k]: the k-th (0-based) of the sorted labels of y_train
ClassAt(k) ==
    CHOOSE c \in Range(y_train) :
        Cardinality({d \in Range(y_train) : d.ord < c.ord}) = k

\* model.predict_proba(X_test)[:, 1]: the probability of classes_[1], taken
\* here as 1 where the model predicts that class and 0 elsewhere
ProbaColumn1(yp) == [j \in 1..Len(yp) |-> IF yp[j] = ClassAt(1) THEN 1 ELSE 0]

\* roc_auc_score(y_test, y_prob) with a one-dimensional y_prob is defined
\* for a binary y_test only; otherwise it raises ValueError
AucDefined(yt) == NUnique(yt) = 2

\* the area under the ROC curve: the share of (positive, negative) pairs
\* ranked in the right order, ties counting half; in units of 1 / Unit(n)
roc_auc_score(yt, prob) ==
    LET pos == CHOOSE c \in Range(yt) : \A d \in Range(yt) : d.ord <= c.ord
        P == {j \in 1..Len(yt) : yt[j] = pos}
        N == {j \in 1..Len(yt) : yt[j] # pos}
        won == Cardinality({q \in P \X N : prob[q[1]] > prob[q[2]]})
        tied == Cardinality({q \in P \X N : prob[q[1]] = prob[q[2]]})
    IN Ratio(Unit(Len(yt)), 2 * won + tied, 2 * Cardinality(P) * Cardinality(N))

Entry(acc, prec, rec, f1, auc) ==
    [Accuracy |-> acc, Precision |-> prec, Recall |-> rec, F1_score |-> f1,
     AUC_ROC |-> auc]

SetResult(res, name, entry) ==
    [n \in (DOMAIN res) \cup {name} |-> IF n = name THEN entry ELSE res[n]]

\* lines 115-131
LoopScore ==
    /\ pc = "loop_score"
    /\ LET accuracy == accuracy_score(y_test, y_pred)
           precision == precision_score(y_test, y_pred)
           recall == recall_score(y_test, y_pred)
           f1 == f1_score(y_test, y_pred)
       IN IF ~HasPredictProba(est[Current.obj])
            THEN /\ results' = SetResult(results, Current.name,
                                         Entry(accuracy, precision, recall, f1, None))
                 /\ Advance
            ELSE IF AucDefined(y_test)
                     THEN /\ results' = SetResult(results, Current.name,
                                Entry(accuracy, precision, recall, f1,
                                      roc_auc_score(y_test, ProbaColumn1(y_pred))))
                          /\ Advance
                     ELSE /\ results' = results
                          /\ idx' = idx
                          /\ pc' = "loop_except"
    /\ UNCHANGED <<error, stages, dirs, envVars, dataset, dataVars, splitVars, origVars,
                   scaler, tuneVars, models, est, fitLog, y_pred, reported, predicted,
                   files>>

\* no handler: the exception leaves the loop and ends the run
HandlerAbsent(name) ==
    /\ Raise("Exception")
    /\ UNCHANGED <<reported, results, idx>>

\* one handler around the whole loop: the exception ends the loop
HandlerAroundLoop(name) ==
    /\ reported' = reported \cup {name}
    /\ results' = results
    /\ error' = error
    /\ idx' = idx + 1
    /\ pc' = "print"

\* lines 133-134: the handler prints the exception and the loop goes on
Handler(name) ==
    /\ reported' = reported \cup {name}
    /\ results' = results
    /\ error' = error
    /\ Advance

LoopExcept ==
    /\ pc = "loop_except"
    /\ Handler(Current.name)
    /\ UNCHANGED <<stages, dirs, envVars, dataset, dataVars, splitVars, origVars,
                   scaler, tuneVars, models, est, fitLog, y_pred, predicted, files>>

\* lines 136-142
PrintResults ==
    /\ pc = "print"
    /\ pc' = "save"
    /\ UNCHANGED <<error, stages, dirs, envVars, dataset, dataVars, splitVars, origVars,
                   scaler, tuneVars, models, est, fitLog, loopVars, files>>

\* ------------------------------------------------ lines 144-157: save
\* pd.DataFrame(y_train): one column
TargetFrame(vals) == << [name |-> y.name, dtype |-> y.dtype, vals |-> vals] >>

Save ==
    /\ pc = "save"
    /\ stages' = Enter("save")
    /\ LET X_train_df == Frame(X_train, Columns(X))
           X_test_df == Frame(X_test, Columns(X))
           f1 == WriteFile(files, "data/X_train.csv", Csv(X_train_df))
           f2 == WriteFile(f1, "data/X_test.csv", Csv(X_test_df))
           f3 == WriteFile(f2, "data/y_train.csv", Csv(TargetFrame(y_train)))
       IN files' = WriteFile(f3, "data/y_test.csv", Csv(TargetFrame(y_test)))
    /\ pc' = "dump"
    /\ UNCHANGED <<error, dirs, envVars, dataset, dataVars, splitVars, origVars,
                   scaler, tuneVars, models, est, fitLog, loopVars>>

\* the model with the greatest F1-score in results (the tuned one if none)
BestByResults ==
    IF DOMAIN results = {} THEN best_model
    ELSE LET n == CHOOSE n \in DOMAIN results :
                    \A m \in DOMAIN results :
                        results[m].F1_score <= results[n].F1_score
         IN models[CHOOSE i \in 1..Len(models) : models[i].name = n].obj

\* the object joblib.dump writes to data/best_model.pkl (line 154)
PersistedModel == best_model

Dump ==
    /\ pc = "dump"
    /\ stages' = Enter("save")
    /\ files' = WriteFile(WriteFile(files, "data/best_model.pkl", est[PersistedModel]),
                          "data/scaler.pkl", scaler)
    /\ pc' = "done"
    /\ UNCHANGED <<error, dirs, envVars, dataset, dataVars, splitVars, origVars,
                   scaler, tuneVars, models, est, fitLog, loopVars>>

Next ==
    \/ MakeDirs
    \/ CheckFile
    \/ Load
    \/ CheckTarget
    \/ DefineXY
    \/ EncodeTarget
    \/ EncodeFeatures
    \/ Split
    \/ CopyOriginals
    \/ Scale
    \/ WriteOriginals
    \/ GridSearch
    \/ BestFit
    \/ DefineModels
    \/ LoopFit
    \/ LoopPredict
    \/ LoopScore
    \/ LoopExcept
    \/ PrintResults
    \/ Save
    \/ Dump

Spec == Init /\ [][Next]_vars

\* the interpreter runs the script to its end: every statement that can
\* run does run
FairSpec == Spec /\ WF_vars(Next)

\* ===================================================================
\* Properties
\* ===================================================================
Outputs ==
    {"data/best_model.pkl", "data/scaler.pkl", "data/X_train.csv",
     "data/X_test.csv", "data/y_train.csv", "data/y_test.csv"}

ModelFile == "data/best_model.pkl"

AfterLoop == pc \in {"print", "save", "dump", "done"}

\* C1: a run that gets as far as the evaluation loop (the file exists, the
\* target column is present, nothing raised before the loop) eventually
\* reaches the end of the script with the tuned model, the scaler and the four
\* split files written, whatever happens to the models inside the loop.
C1_SavesWhateverTheLoopDoes ==
    (pc = "loop_fit" /\ idx = 1) ~> (pc = "done" /\ Outputs \subseteq DOMAIN files)

C1_Witness ==
    /\ pc = "done"
    /\ reported = {"SVM", "Random Forest", "LightGBM Optimise"}
    /\ Outputs \subseteq DOMAIN files

\* C2 as stated: the persisted model is the one of the compared models with
\* the best evaluation score recorded in results.
C2_PersistsBestOfCompared ==
    (pc = "done" /\ DOMAIN results # {}) =>
        \E i \in 1..Len(models) :
            /\ models[i].name \in DOMAIN results
            /\ \A m \in DOMAIN results :
                   results[m].F1_score <= results[models[i].name].F1_score
            /\ files[ModelFile] = est[models[i].obj]

\* C2 amended: the persisted model is always the tuned LightGBM estimator
\* (the grid search's best estimator with best_params_), whatever the
\* results of the evaluation are.
C2_PersistsTunedLightGBM ==
    pc = "done" =>
        /\ files[ModelFile].kind = "LGBMClassifier"
        /\ files[ModelFile].params = best_params
        /\ files[ModelFile] = est["best_estimator_"]

C2_Witness ==
    /\ pc = "done"
    /\ {"SVM", "LightGBM Optimise"} \subseteq DOMAIN results
    /\ results["SVM"].F1_score > results["LightGBM Optimise"].F1_score
    /\ results["SVM"].Accuracy > results["LightGBM Optimise"].Accuracy
    /\ files[ModelFile].kind = "LGBMClassifier"

\* C3: an exception raised while fitting, predicting or scoring one model is
\* caught and reported; that model gets no entry in results, the entries of
\* earlier models are unchanged, the loop goes on with the next model (or
\* ends after the last one), and the run does not abort: after the loop every
\* model has either an entry or a report, never both.
C3_Step ==
    pc = "loop_except" =>
        /\ reported' = reported \cup {Current.name}
        /\ results' = results
        /\ Current.name \notin DOMAIN results'
        /\ error' = "none"
        /\ idx' = idx + 1
        /\ pc' = IF idx < 3 THEN "loop_fit" ELSE "print"

C3_AllModelsTried ==
    AfterLoop =>
        /\ error = "none"
        /\ (DOMAIN results) \cup reported = {"SVM", "Random Forest", "LightGBM Optimise"}
        /\ (DOMAIN results) \cap reported = {}

C3_OneHandlerPerModel == [][C3_Step]_vars /\ []C3_AllModelsTried

C3_Witness ==
    /\ pc = "done"
    /\ reported = {"SVM"}
    /\ DOMAIN results = {"Random Forest", "LightGBM Optimise"}

\* C4: when the input file does not exist the run ends with
\* FileNotFoundError, and when the dataset has no 'Diagnosis' column it ends
\* with ValueError; in both cases no file is ever written under data/ and no
\* estimator is ever fitted.
NoTargetColumn == \A j \in 1..Len(workbook) : workbook[j].name # "Diagnosis"

C4_ChecksStopTheRun ==
    /\ ~fileExists =>
          /\ DOMAIN files = {} /\ fitLog = <<>> /\ DOMAIN est = {}
          /\ pc \in {"makedirs", "check_file", "aborted"}
          /\ pc = "aborted" => error = "FileNotFoundError"
    /\ (fileExists /\ NoTargetColumn) =>
          /\ DOMAIN files = {} /\ fitLog = <<>> /\ DOMAIN est = {}
          /\ pc \in {"makedirs", "check_file", "load", "check_target", "aborted"}
          /\ pc = "aborted" => error = "ValueError"

C4_Witness ==
    /\ pc = "aborted"
    /\ error = "ValueError"
    /\ dataset # <<>>
    /\ NoTargetColumn
    /\ DOMAIN files = {}


\* C5 as stated: the stages run once each in the order load, encode, split,
\* scale, grid-search, fit, evaluate, save, and every write of a file under
\* data/ belongs to the save stage, after the evaluation.
IsPrefix(a, b) == Len(a) <= Len(b) /\ \A i \in 1..Len(a) : a[i] = b[i]

PipelineOrder ==
    <<"load", "encode", "split", "scale", "grid_search", "fit", "evaluate", "save">>

Originals == {"data/X_train_original.csv", "data/X_test_original.csv"}

FullGrid ==
    [n_estimators : {100, 200, 300}, learning_rate : {1, 10, 30},
     max_depth : {3, 5, 10}, num_leaves : {20, 31, 40},
     min_child_samples : {5, 10, 20}]

C6_ExhaustiveGridSearch ==
    "best_estimator_" \in DOMAIN est =>
        /\ Len(cv_results.params) = 243
        /\ Range(cv_results.params) = FullGrid
        /\ Len(cv_results.scores) = 243
        /\ \A i \in 1..243 : Len(cv_results.scores[i]) = 5
        /\ \E b \in 1..243 :
              /\ cv_results.params[b] = best_params
              /\ \A i \in 1..243 :
                    SumSeq(cv_results.scores[i]) <= SumSeq(cv_results.scores[b])
        /\ est["best_estimator_"].kind = "LGBMClassifier"
        /\ est["best_estimator_"].params = best_params

C6_Witness ==
    /\ pc = "best_fit"
    /\ best_params # cv_results.params[1]
    /\ \E i, k \in 1..243 :
          SumSeq(cv_results.scores[i]) < SumSeq(cv_results.scores[k])

\* C7 as stated: every model whose fit and predict succeeded has, once its
\* iteration is over, an entry in results with the five metrics, for a target
\* of two classes or of more, AUC-ROC being None only without predict_proba.
C7_EntryForEveryPredictedModel ==
    \A n \in predicted :
        \/ pc = "loop_score" /\ Current.name = n
        \/ /\ n \in DOMAIN results
           /\ results[n].AUC_ROC # None

\* C8: the target is label-encoded exactly when it is of dtype object or has
\* more than two distinct values, and is left unchanged otherwise; each object
\* feature column is replaced by its own label encoding, and the other
\* columns, the set of columns and their order are unchanged.
IsLabelEncoding(raw, enc) ==
    /\ Len(enc) = Len(raw)
    /\ \A i \in 1..Len(raw) : enc[i].kind = "int"
    /\ {enc[i].ord : i \in 1..Len(enc)} = 0..(Cardinality(Range(raw)) - 1)
    /\ \A i, k \in 1..Len(raw) : raw[i].ord < raw[k].ord <=> enc[i].ord < enc[k].ord

RawTarget == workbook[CHOOSE j \in 1..Len(workbook) : workbook[j].name = "Diagnosis"]
RawFeatures == SelectSeq(workbook, LAMBDA c : c.name # "Diagnosis")

C8_EncodingTouchesOnlyCategoricals ==
    ("encode" \in Range(stages) /\ pc # "encode_X") =>
        /\ IF RawTarget.dtype = "object" \/ Cardinality(Range(RawTarget.vals)) > 2
             THEN IsLabelEncoding(RawTarget.vals, y.vals)
             ELSE y = RawTarget
        /\ Len(X) = Len(RawFeatures)
        /\ \A j \in 1..Len(X) :
              /\ X[j].name = RawFeatures[j].name
              /\ IF RawFeatures[j].dtype = "object"
                   THEN IsLabelEncoding(RawFeatures[j].vals, X[j].vals)
                   ELSE X[j] = RawFeatures[j]

C8_Witness ==
    /\ pc = "split"
    /\ RawTarget.dtype = "int64" /\ y = RawTarget
    /\ RawFeatures[1].dtype = "object" /\ X[1].vals # RawFeatures[1].vals
    /\ RawFeatures[2].dtype = "int64" /\ X[2] = RawFeatures[2]

\* C9: X_train_original and X_test_original are the unscaled splits, scaling
\* leaves them unchanged, and the two original csv files hold the same rows in
\* the same order and the same columns as X_train.csv and X_test.csv, each
\* cell differing only by the transformation of the saved scaler.
SameUpToScaling(orig, scaled, sc) ==
    /\ scaled.header = orig.header
    /\ Len(scaled.rows) = Len(orig.rows)
    /\ \A i \in 1..Len(orig.rows) :
          /\ Len(scaled.rows[i]) = Len(orig.rows[i])
          /\ \A j \in 1..Len(orig.rows[i]) :
                scaled.rows[i][j] = Zcell(orig.rows[i][j], sc[j])

IsUnscaledSplit(file, rows) ==
    /\ file.header = [j \in 1..Len(X) |-> X[j].name]
    /\ Len(file.rows) = Len(rows)
    /\ \A i \in 1..Len(rows) : \A j \in 1..Len(X) : file.rows[i][j] = X[j].vals[rows[i]]

C9_OriginalsAreTheUnscaledSplit ==
    /\ X_train_original # <<>> =>
          /\ Len(X_train_original) = Len(X)
          /\ \A j \in 1..Len(X) :
                /\ X_train_original[j].vals = Take(X[j].vals, trainIdx)
                /\ X_test_original[j].vals = Take(X[j].vals, testIdx)
    /\ Originals \subseteq DOMAIN files =>
          /\ IsUnscaledSplit(files["data/X_train_original.csv"], trainIdx)
          /\ IsUnscaledSplit(files["data/X_test_original.csv"], testIdx)
    /\ pc = "done" =>
          /\ SameUpToScaling(files["data/X_train_original.csv"],
                             files["data/X_train.csv"], files["data/scaler.pkl"])
          /\ SameUpToScaling(files["data/X_test_original.csv"],
                             files["data/X_test.csv"], files["data/scaler.pkl"])

C9_Witness ==
    /\ pc = "done"
    /\ files["data/X_train_original.csv"].rows[1][1].kind = "int"
    /\ files["data/X_train.csv"].rows[1][1].kind = "z"
    /\ files["data/X_train.csv"].rows[1][1].num # 0

\* C10: the scaler, the grid search and every fit of the three models receive
\* the training split only; the persisted model has been fitted at least
\* once, on the training split, even when its evaluation in the loop raised.
TrainFrame == Rows(X, trainIdx)

C10_FitsUseTrainingSplitOnly ==
    /\ Range(trainIdx) \cap Range(testIdx) = {}
    /\ LET scaled == ScalerTransform(ScalerFit(TrainFrame), TrainFrame)
       IN \A k \in 1..Len(fitLog) :
             IF fitLog[k].est = "StandardScaler"
               THEN fitLog[k].X = TrainFrame
               ELSE /\ fitLog[k].X = scaled
                    /\ fitLog[k].y = Take(y.vals, trainIdx)
    /\ scaler # <<>> => scaler = ScalerFit(TrainFrame)
    /\ pc = "done" =>
          /\ files[ModelFile].nfit >= 1
          /\ files[ModelFile].lastFit \in 1..Len(fitLog)
          /\ fitLog[files[ModelFile].lastFit].est = "best_estimator_"

C10_Witness ==
    /\ pc = "done"
    /\ "LightGBM Optimise" \in reported
    /\ files[ModelFile].nfit = 2
    /\ Len(fitLog) = 5

====
